---- MODULE Spec2Model ----
(***************************************************************************)
(* Model of the indoor-positioning simulator core:                         *)
(*   - Config (classes/config.py): defaults and validation of the parsed   *)
(*     configuration dictionary;                                           *)
(*   - TrajectoryFactory (classes/simulators/trajectory/factory.py);       *)
(*   - DummyPositionModule and DanisCemgil2017Custom, the motion models.   *)
(*                                                                         *)
(* Numbers.  Lengths of the configuration are exact integers in tenths of  *)
(* a metre.  Positions of the motion models are exact reals of the form    *)
(*   a0 + a1*cos(pi/8) + a2*cos(2pi/8) + a3*cos(3pi/8)   (millimetres)     *)
(* held as the 4-tuple <<a0,a1,a2,a3>> of integers; headings are integer   *)
(* multiples of pi/8, never wrapped.  cos, sin, + and the comparisons with *)
(* the bounds are computed exactly on this representation.                 *)
(***************************************************************************)
EXTENDS Integers, Sequences, FiniteSets, TLC

VARIABLES
    raw,            \* the parsed configuration dictionary given to Config
    attrs,          \* the attributes of the Config object after extraction
    cfgResult,      \* "none" | "ok" | the ValueError message raised
    sim,            \* the motion-model instance the factory returned (or NoSim)
    factoryResult,  \* "none" | "instance" | the ValueError message raised
    constructed,    \* classes whose constructor the factory has called
    request,        \* the name and parameters the factory was called with
    env,            \* the driver's per-run constants: bounds, speed, tick
    now,            \* the driver's clock, milliseconds
    state,          \* the driver's MotionState: x, y, angle
    last_call,      \* inputs, flags and returned tuple of the latest call
    ncalls,         \* number of calculate_position calls made in this run
    lastEvt,        \* time of the latest call that was out of bounds or drew
    outRun,         \* consecutive out-of-bounds calls of the current excursion
    leftFrom,       \* in-bounds position the current excursion left from
    mode,           \* "walk" | "record" | "replay"
    log,            \* first run's per-call record: time and returned tuple
    draws           \* first run's random draws, in the order they were made

vars == <<raw, attrs, cfgResult, sim, factoryResult, constructed, request, env,
          now, state, last_call, ncalls, lastEvt, outRun, leftFrom,
          mode, log, draws>>

cfgVars == <<raw, attrs, cfgResult>>
simVars == <<sim, factoryResult, constructed, request, env, now, state,
             last_call, ncalls, lastEvt, outRun, leftFrom, mode, log, draws>>

(***************************************************************************)
(* Config                                                                  *)
(***************************************************************************)

\* An optional value is a sequence of length at most one: <<>> is a key the
\* dictionary does not hold, <<v>> a key holding v.
Absent == <<>>

Some(v) == <<v>>

\* Python's None (the default of room_dim_meters); a JSON null reads the same.
None == <<>>

\* dict.get(key, default)
Get(d, key, default) == IF d[key] = Absent THEN default ELSE d[key][1]

\* Config._extract_config_parameters: every attribute with its default.
\* angle_draw is the value np.random.uniform(0, 360) returned.
ExtractConfigParameters(config, angle_draw) ==
    LET simulators == Get(config, "simulators", [trajectory |-> Absent, rssi |-> Absent])
    IN  [simulation_duration_seconds |-> Get(config, "simulation_duration_seconds", 60),
         room_dim_meters             |-> config.room_dim_meters,
         margin_meters               |-> Get(config, "margin_meters", 0),
         initial_position            |-> Get(config, "initial_position",
                                             [x |-> Some(0), y |-> Some(0)]),
         speed_meters_second         |-> Get(config, "speed_meters_second", 5),
         initial_angle_degrees       |-> Get(config, "initial_angle_degrees", angle_draw),
         trajectory_simulator_module |-> Get(simulators, "trajectory", ""),
         rssi_simulator_module       |-> Get(simulators, "rssi", "")]

\* 'x' not in d or 'y' not in d
LacksXY(d) == d.x = Absent \/ d.y = Absent

\* d['x'] and d['y'] of a dictionary that holds them.
X(d) == d.x[1]
Y(d) == d.y[1]

\* Mutant: the upper ends of the playfield are excluded (>= for >).
RoomSizeCoherence_exclusive(a) ==
    LET room == a.room_dim_meters[1]
        pos  == a.initial_position
    IN  IF X(pos) < a.margin_meters \/ X(pos) >= X(room) - a.margin_meters
        THEN "Initial x position is out of bounds."
        ELSE IF Y(pos) < a.margin_meters \/ Y(pos) >= Y(room) - a.margin_meters
        THEN "Initial y position is out of bounds."
        ELSE "ok"

\* Mutant: only the lower ends of the playfield are checked.
RoomSizeCoherence_lowerOnly(a) ==
    LET pos == a.initial_position
    IN  IF X(pos) < a.margin_meters
        THEN "Initial x position is out of bounds."
        ELSE IF Y(pos) < a.margin_meters
        THEN "Initial y position is out of bounds."
        ELSE "ok"

\* The last two checks of _validate_config ("Room size coherence").
RoomSizeCoherence(a) ==
    LET room == a.room_dim_meters[1]
        pos  == a.initial_position
    IN  IF X(pos) < a.margin_meters \/ X(pos) > X(room) - a.margin_meters
        THEN "Initial x position is out of bounds."
        ELSE IF Y(pos) < a.margin_meters \/ Y(pos) > Y(room) - a.margin_meters
        THEN "Initial y position is out of bounds."
        ELSE "ok"

\* _validate_config from its room-dimension checks on.
ValidateFromRoom(a) ==
    IF a.room_dim_meters = None
    THEN "Room dimensions must be provided."
    ELSE IF LacksXY(a.room_dim_meters[1])
    THEN "Room dimensions must include 'x' and 'y' indices."
    ELSE IF X(a.room_dim_meters[1]) <= 0 \/ Y(a.room_dim_meters[1]) <= 0
    THEN "Room dimensions must be greater than 0."
    ELSE IF a.margin_meters < 0
    THEN "Margin must be greater or equal to 0."
    ELSE IF LacksXY(a.initial_position)
    THEN "Initial position must include 'x' and 'y' indices."
    ELSE IF X(a.initial_position) < 0 \/ Y(a.initial_position) < 0
    THEN "Initial position must be greater or equal to 0."
    ELSE IF a.speed_meters_second <= 0
    THEN "Speed must be greater than 0."
    ELSE IF a.initial_angle_degrees < 0 \/ a.initial_angle_degrees >= 360
    THEN "Initial angle must be between 0 and 360 degrees."
    ELSE IF a.trajectory_simulator_module = ""
    THEN "Trajectory simulator module must be provided."
    ELSE IF a.rssi_simulator_module = ""
    THEN "RSSI simulator module must be provided."
    ELSE RoomSizeCoherence(a)

\* Mutant: the margin is checked before the room dimensions.
ValidateConfig_marginFirst(a) ==
    IF a.simulation_duration_seconds <= 0
    THEN "Simulation duration must be greater than 0."
    ELSE IF a.margin_meters < 0
    THEN "Margin must be greater or equal to 0."
    ELSE ValidateFromRoom(a)

\* Config._validate_config: the message of the first check that fails, or "ok".
ValidateConfig(a) ==
    IF a.simulation_duration_seconds <= 0
    THEN "Simulation duration must be greater than 0."
    ELSE ValidateFromRoom(a)

\* Opt(S): absent, or present with a value of S.
Opt(S) == {Absent} \cup {Some(v) : v \in S}

\* The configurations tried: each key absent or one of a few values.  Lengths
\* and the speed are in tenths (11 is 1.1 m, 20 is 2 m, the default speed 0.5
\* is 5).
RoomDims == Opt([x : Opt({0, 20, 30}), y : Opt({0, 20})])
InitialPositions == Opt([x : Opt({-5, 9, 10, 11}), y : Opt({-5, 10, 11})])
SimulatorSections ==
    Opt([trajectory : Opt({"", "dummy"}), rssi : Opt({"rssi_module"})])
RawConfigs ==
    [simulation_duration_seconds : Opt({0, 60}),
     room_dim_meters             : RoomDims,
     margin_meters               : Opt({-1, 10, 11}),
     initial_position            : InitialPositions,
     speed_meters_second         : Opt({0}),
     initial_angle_degrees       : Opt({-1, 360}),
     simulators                  : SimulatorSections]

\* Values np.random.uniform(0, 360) can return: any of [0, 360).
AngleDraws == {0, 359}

\* Before construction there is no dictionary and no attribute.
NoConfig == <<>>

\* Config.__init__ on an already parsed dictionary: extract, then validate.
\* The default of initial_angle_degrees is drawn whether or not it is used.
ConfigInit ==
    /\ cfgResult = "none"
    /\ \E config \in RawConfigs, angle_draw \in AngleDraws :
          /\ raw' = config
          /\ attrs' = ExtractConfigParameters(config, angle_draw)
          /\ cfgResult' = ValidateConfig(attrs')
    /\ UNCHANGED simVars

(***************************************************************************)
(* Exact arithmetic on Z[cos(pi/8), cos(2pi/8), cos(3pi/8)]                *)
(***************************************************************************)

\* <<a0,a1,a2,a3>> is the real a0 + a1*c1 + a2*c2 + a3*c3, c_k = cos(k*pi/8).
Real(n) == <<n, 0, 0, 0>>
Plus(a, b) == <<a[1] + b[1], a[2] + b[2], a[3] + b[3], a[4] + b[4]>>
Minus(a, b) == <<a[1] - b[1], a[2] - b[2], a[3] - b[3], a[4] - b[4]>>
Times(k, a) == <<k * a[1], k * a[2], k * a[3], k * a[4]>>

\* np.cos(angle) for angle = k*pi/8.
Cos(k) ==
    LET r == k % 16
    IN  CASE r = 0  -> <<1, 0, 0, 0>>
          [] r = 1  -> <<0, 1, 0, 0>>
          [] r = 2  -> <<0, 0, 1, 0>>
          [] r = 3  -> <<0, 0, 0, 1>>
          [] r = 4  -> <<0, 0, 0, 0>>
          [] r = 5  -> <<0, 0, 0, -1>>
          [] r = 6  -> <<0, 0, -1, 0>>
          [] r = 7  -> <<0, -1, 0, 0>>
          [] r = 8  -> <<-1, 0, 0, 0>>
          [] r = 9  -> <<0, -1, 0, 0>>
          [] r = 10 -> <<0, 0, -1, 0>>
          [] r = 11 -> <<0, 0, 0, -1>>
          [] r = 12 -> <<0, 0, 0, 0>>
          [] r = 13 -> <<0, 0, 0, 1>>
          [] r = 14 -> <<0, 0, 1, 0>>
          [] OTHER  -> <<0, 1, 0, 0>>

\* np.sin(angle) = cos(angle - pi/2).
Sin(k) == Cos(k - 4)

SgnInt(n) == IF n > 0 THEN 1 ELSE IF n < 0 THEN -1 ELSE 0

\* Sign of p + q*sqrt(2).
Sgn2(p, q) ==
    IF SgnInt(p) = SgnInt(q) \/ q = 0 THEN SgnInt(p)
    ELSE IF p = 0 THEN SgnInt(q)
    ELSE IF p > 0 THEN SgnInt(p * p - 2 * q * q)
    ELSE SgnInt(2 * q * q - p * p)

\* Sign of the real a.  With s = sqrt(2 + sqrt 2): 2*c1 = s, 2*c2 = sqrt 2,
\* 2*c3 = s*(sqrt 2 - 1), so 2a = U + V*s with U = 2*a0 + a2*sqrt 2 and
\* V = (a1 - a3) + a3*sqrt 2; when U and V differ in sign, U^2 is compared
\* with V^2 * (2 + sqrt 2).
Sgn(a) ==
    LET up == 2 * a[1]
        uq == a[3]
        vp == a[2] - a[4]
        vq == a[4]
        su == Sgn2(up, uq)
        sv == Sgn2(vp, vq)
        u2p == up * up + 2 * uq * uq
        u2q == 2 * up * uq
        v2p == vp * vp + 2 * vq * vq
        v2q == 2 * vp * vq
        wp == u2p - (2 * v2p + 2 * v2q)
        wq == u2q - (v2p + 2 * v2q)
    IN  IF sv = 0 THEN su
        ELSE IF su = 0 \/ su = sv THEN sv
        ELSE su * Sgn2(wp, wq)

Less(a, b) == Sgn(Minus(a, b)) < 0
Greater(a, b) == Sgn(Minus(a, b)) > 0

(***************************************************************************)
(* The motion models                                                       *)
(***************************************************************************)

\* DummyPositionModule has no constructor of its own and no state.
DummyInit == [class |-> "DummyPositionModule"]

\* random.uniform(a, b) = a + (b - a) * random(): u is the value of random()
\* in halves (rounding can return b itself, so u = 2 is kept); the areas
\* tried have even sides, which makes the division exact.
Uniform(a, b, u) == a + ((b - a) * u) \div 2

UniformDraws == {0, 1, 2}

\* DummyPositionModule.calculate_position: the returned tuple.
DummyCalculatePosition(min_x, max_x, min_y, max_y, ux, uy) ==
    <<Real(Uniform(min_x, max_x, ux)), Real(Uniform(min_y, max_y, uy))>>

\* np.pi / 8, the unit of the headings.
PiOver8 == 1

\* Mutant: the timer is kept on the class, so a new instance starts with the
\* value the previous one left.
DanisInit_stale(keep_angle_ms, s) ==
    [class |-> "DanisCemgil2017Custom",
     s |-> s,
     outbounds_ration |-> PiOver8,
     keep_angle_ms |-> keep_angle_ms,
     last_angle_change_time |->
         IF sim.class = "DanisCemgil2017Custom" THEN sim.last_angle_change_time ELSE 0]

\* DanisCemgil2017Custom.__init__ (s in hundredths of a radian: 0.07 is 7).
DanisInit(keep_angle_ms, s) ==
    [class |-> "DanisCemgil2017Custom",
     s |-> s,
     outbounds_ration |-> PiOver8,
     keep_angle_ms |-> keep_angle_ms,
     last_angle_change_time |-> 0]

\* Values np.random.normal(0, s) can return, in units of pi/8: only 0 when
\* s = 0, any real otherwise (three of them are tried).
NormalDraws(s) == IF s = 0 THEN {0} ELSE {-1, 0, 1}

\* x < min_x or x > max_x or y < min_y or y > max_y
OutOfBounds(x, y, min_x, max_x, min_y, max_y) ==
    \/ Less(x, Real(min_x))
    \/ Greater(x, Real(max_x))
    \/ Less(y, Real(min_y))
    \/ Greater(y, Real(max_y))

\* Whether the call draws from np.random.normal (the elif branch is taken).
Draws(self, current_time, oob) ==
    /\ ~oob
    /\ current_time - self.last_angle_change_time > self.keep_angle_ms

\* Mutant: the timer is tested before the position.
DeltaAngle_timerFirst(self, current_time, oob, draw) ==
    IF current_time - self.last_angle_change_time > self.keep_angle_ms THEN draw
    ELSE IF oob THEN self.outbounds_ration
    ELSE 0

\* Mutant: the hold period also suppresses the boundary correction.
DeltaAngle_heldCorrection(self, current_time, oob, draw) ==
    IF current_time - self.last_angle_change_time > self.keep_angle_ms
    THEN (IF oob THEN self.outbounds_ration ELSE draw)
    ELSE 0

\* delta_angle of the call; draw is what np.random.normal returns if called.
DeltaAngle(self, current_time, oob, draw) ==
    IF oob THEN self.outbounds_ration
    ELSE IF current_time - self.last_angle_change_time > self.keep_angle_ms THEN draw
    ELSE 0

\* Mutant: a boundary correction does not reset the timer.
NextChangeTime_noReset(self, current_time, oob) ==
    IF ~oob /\ current_time - self.last_angle_change_time > self.keep_angle_ms
    THEN current_time
    ELSE self.last_angle_change_time

\* self._last_angle_change_time after the call.
NextChangeTime(self, current_time, oob) ==
    IF oob THEN current_time
    ELSE IF current_time - self.last_angle_change_time > self.keep_angle_ms
    THEN current_time
    ELSE self.last_angle_change_time

\* delta_l = speed * milliseconds_per_iteration / 1000, speed in mm/s and the
\* result in mm (the inputs tried make the division exact).
DeltaL(speed, milliseconds_per_iteration) ==
    (speed * milliseconds_per_iteration) \div 1000

\* Mutant: the new position is clamped to the area (a hard boundary).
Advance_clamped(x, y, delta_l, angle) ==
    LET Clamp(v, lo, hi) == IF Less(v, Real(lo)) THEN Real(lo)
                            ELSE IF Greater(v, Real(hi)) THEN Real(hi)
                            ELSE v
    IN  <<Clamp(Plus(x, Times(delta_l, Cos(angle))), env.area.min_x, env.area.max_x),
          Clamp(Plus(y, Times(delta_l, Sin(angle))), env.area.min_y, env.area.max_y)>>

\* x += delta_l * np.cos(angle); y += delta_l * np.sin(angle)
Advance(x, y, delta_l, angle) ==
    <<Plus(x, Times(delta_l, Cos(angle))), Plus(y, Times(delta_l, Sin(angle)))>>

\* DanisCemgil2017Custom.calculate_position: the returned tuple (ret), the
\* instance after the call (self) and whether np.random.normal was called.
DanisCalculatePosition(self, current_time, milliseconds_per_iteration, last_angle, last_x, last_y, min_x, max_x, min_y, max_y, speed, draw) ==
    LET oob   == OutOfBounds(last_x, last_y, min_x, max_x, min_y, max_y)
        angle == last_angle + DeltaAngle(self, current_time, oob, draw)
        xy    == Advance(last_x, last_y, DeltaL(speed, milliseconds_per_iteration), angle)
    IN  [ret  |-> <<xy[1], xy[2], angle>>,
         self |-> [self EXCEPT !.last_angle_change_time =
                                   NextChangeTime(self, current_time, oob)],
         drew |-> Draws(self, current_time, oob)]

(***************************************************************************)
(* TrajectoryFactory                                                       *)
(***************************************************************************)

NoSim == [class |-> "none"]

\* DanisCemgil2017(**constructor_params): the class lives in
\* classes/simulators/trajectory/daniscemgil2017.py; only its construction
\* by the factory is modelled.
DanisCemgil2017Init == [class |-> "DanisCemgil2017"]

\* DanisCemgil2017Custom(**constructor_params): absent keys take the
\* constructor's defaults (keep_angle_ms = 300, s = 0.07).
DanisFromParams(constructor_params) ==
    DanisInit(Get(constructor_params, "keep_angle_ms", 300),
              Get(constructor_params, "s", 7))

\* Mutant: an unknown name falls back to the dummy model.
CreateTrajectorySimulator_fallback(simulator_name, constructor_params) ==
    IF simulator_name = "daniscemgil2017"
    THEN [result |-> "instance", instance |-> DanisCemgil2017Init]
    ELSE IF simulator_name = "daniscemgil2017custom"
    THEN [result |-> "instance", instance |-> DanisFromParams(constructor_params)]
    ELSE [result |-> "instance", instance |-> DummyInit]

\* TrajectoryFactory.create_trajectory_simulator: the instance returned
\* (result "instance") or the ValueError raised (result "not available").
CreateTrajectorySimulator(simulator_name, constructor_params) ==
    IF simulator_name = "dummy"
    THEN [result |-> "instance", instance |-> DummyInit]
    ELSE IF simulator_name = "daniscemgil2017"
    THEN [result |-> "instance", instance |-> DanisCemgil2017Init]
    ELSE IF simulator_name = "daniscemgil2017custom"
    THEN [result |-> "instance", instance |-> DanisFromParams(constructor_params)]
    ELSE [result |-> "Trajectory simulator not available.", instance |-> NoSim]

\* Names asked of the factory.
SimulatorNames == {"dummy", "daniscemgil2017", "daniscemgil2017custom", "nonexistent", ""}

NoParams == [keep_angle_ms |-> Absent, s |-> Absent]

\* constructor_params given with each name: {} for the classes that take no
\* parameter, any of keep_angle_ms and s for DanisCemgil2017Custom.
ParamsFor(simulator_name) ==
    IF simulator_name = "daniscemgil2017custom"
    THEN [keep_angle_ms : Opt({0, 200}), s : Opt({0})]
    ELSE {NoParams}

NoRequest == [name |-> "none", params |-> NoParams]

\* One call of the factory by the driver.
CreateSimulator ==
    /\ factoryResult = "none"
    /\ \E simulator_name \in SimulatorNames :
       \E constructor_params \in ParamsFor(simulator_name) :
          LET r == CreateTrajectorySimulator(simulator_name, constructor_params)
          IN  /\ factoryResult' = r.result
              /\ sim' = r.instance
              /\ constructed' = IF r.instance = NoSim THEN constructed
                                ELSE constructed \cup {r.instance.class}
              /\ request' = [name |-> simulator_name, params |-> constructor_params]
    /\ UNCHANGED <<cfgVars, env, now, state, last_call, ncalls, lastEvt, outRun,
                   leftFrom, mode, log, draws>>

(***************************************************************************)
(* The simulation loop: one calculate_position call per tick, the returned *)
(* position and heading being the next call's input.                       *)
(***************************************************************************)

\* Longest walk explored, in calls.
MaxCalls == 18

\* Length of a recorded run that is replayed on a fresh instance.
MaxRunLen == 3

\* Calls explored of the stateless dummy model in a walk.
MaxDummyCalls == 3

\* The area, speed (dm/s), tick (ms), start position (dm) and start heading
\* (units of pi/8) of a run.
Areas == {[min_x |-> 0, max_x |-> 2, min_y |-> 0, max_y |-> 2],
          [min_x |-> 0, max_x |-> 4, min_y |-> 0, max_y |-> 2],
          [min_x |-> -1, max_x |-> 3, min_y |-> -2, max_y |-> 2]}
Kinematics == {[speed |-> 10, ms |-> 100], [speed |-> 10, ms |-> 200],
               [speed |-> 5, ms |-> 200]}
Starts == {[x0 |-> 0, y0 |-> 0], [x0 |-> 1, y0 |-> 1], [x0 |-> -1, y0 |-> 1],
           [x0 |-> 3, y0 |-> 3]}
StartAngles == {0, 3, 6, 13}

Envs ==
    {[area |-> a, speed |-> k.speed, ms |-> k.ms, x0 |-> p.x0, y0 |-> p.y0, angle0 |-> h] :
        a \in Areas, k \in Kinematics, p \in Starts, h \in StartAngles}

StartState(e) == [x |-> Real(e.x0), y |-> Real(e.y0), angle |-> e.angle0]

NoCall == [class |-> "none"]

\* The position is inside [min_x,max_x] x [min_y,max_y] (both ends included).
InArea(x, y, a) ==
    /\ Sgn(Minus(x, Real(a.min_x))) >= 0
    /\ Sgn(Minus(Real(a.max_x), x)) >= 0
    /\ Sgn(Minus(y, Real(a.min_y))) >= 0
    /\ Sgn(Minus(Real(a.max_y), y)) >= 0

CallLimit == IF mode = "walk" THEN MaxCalls ELSE MaxRunLen

DummyCallLimit == IF mode = "walk" THEN MaxDummyCalls ELSE MaxRunLen

\* The record kept of a call: its inputs, what it returned, whether the
\* input position was outside the area, whether it drew, the time of the
\* latest earlier call that was outside or drew (0 if none), and whether
\* the call before it had an out-of-bounds input.
CallRecord(class, ret, drew) ==
    [class |-> class, time |-> now, angle |-> state.angle, x |-> state.x,
     y |-> state.y, oob |-> ~InArea(state.x, state.y, env.area), drew |-> drew,
     T |-> lastEvt, prev_oob |-> (ncalls > 0 /\ last_call.oob), ret |-> ret]

\* Book-keeping of excursions: an excursion starts when a call with an
\* in-bounds position is followed by one with an out-of-bounds position.
Excursion(oob) ==
    IF ~oob THEN outRun' = 0 /\ leftFrom' = leftFrom
    ELSE IF outRun > 0 THEN outRun' = outRun + 1 /\ leftFrom' = leftFrom
    ELSE IF ncalls > 0 /\ ~last_call.oob
    THEN outRun' = 1 /\ leftFrom' = <<last_call.x, last_call.y>>
    ELSE outRun' = 0 /\ leftFrom' = leftFrom

\* A tick with the DanisCemgil2017Custom model.
TickCustom ==
    /\ factoryResult = "instance"
    /\ sim.class = "DanisCemgil2017Custom"
    /\ mode \in {"walk", "record"}
    /\ ncalls < CallLimit
    /\ \E draw \in NormalDraws(sim.s) :
       \E r \in {DanisCalculatePosition(sim, now, env.ms, state.angle, state.x, state.y,
                                        env.area.min_x, env.area.max_x, env.area.min_y,
                                        env.area.max_y, env.speed, draw)} :
       \E c \in {CallRecord(sim.class, r.ret, r.drew)} :
           /\ sim' = r.self
           /\ state' = [x |-> r.ret[1], y |-> r.ret[2], angle |-> r.ret[3]]
           /\ last_call' = c
           /\ lastEvt' = IF c.oob \/ r.drew THEN now ELSE lastEvt
           /\ Excursion(c.oob)
           /\ log' = IF mode = "record" THEN Append(log, [time |-> now, ret |-> r.ret])
                     ELSE log
           /\ draws' = IF mode = "record" /\ r.drew THEN Append(draws, draw) ELSE draws
    /\ now' = now + env.ms
    /\ ncalls' = ncalls + 1
    /\ UNCHANGED <<cfgVars, factoryResult, constructed, request, env, mode>>

\* A tick with the DummyPositionModule model.  The returned tuple holds no
\* heading: the driver's heading is left as it was.
TickDummy ==
    /\ factoryResult = "instance"
    /\ sim.class = "DummyPositionModule"
    /\ mode \in {"walk", "record"}
    /\ ncalls < DummyCallLimit
    /\ \E ux \in UniformDraws, uy \in UniformDraws :
       LET a == env.area
           ret == DummyCalculatePosition(a.min_x, a.max_x, a.min_y, a.max_y, ux, uy)
       IN  /\ state' = [state EXCEPT !.x = ret[1], !.y = ret[2]]
           /\ last_call' = CallRecord(sim.class, ret, TRUE)
           /\ log' = IF mode = "record" THEN Append(log, [time |-> now, ret |-> ret])
                     ELSE log
           /\ draws' = IF mode = "record" THEN draws \o <<ux, uy>> ELSE draws
    /\ now' = now + env.ms
    /\ ncalls' = ncalls + 1
    /\ UNCHANGED <<cfgVars, sim, factoryResult, constructed, request, env, lastEvt,
                   outRun, leftFrom, mode>>

\* The second run starts: the factory is called again with the same name
\* and parameters, and the driver starts again from the same position,
\* heading and time.  The random source is seeded as in the first run, so
\* it returns the recorded draws in their order.
StartReplay ==
    /\ mode = "record"
    /\ factoryResult = "instance"
    /\ ncalls > 0
    /\ LET r == CreateTrajectorySimulator(request.name, request.params)
       IN  /\ sim' = r.instance
           /\ constructed' = constructed \cup {r.instance.class}
    /\ mode' = "replay"
    /\ state' = StartState(env)
    /\ now' = 0
    /\ ncalls' = 0
    /\ last_call' = NoCall
    /\ lastEvt' = 0
    /\ outRun' = 0
    /\ UNCHANGED <<cfgVars, factoryResult, request, env, leftFrom, log, draws>>

\* The next value of the replayed random source (0 once it is exhausted).
NextDraw(ds) == IF ds = <<>> THEN 0 ELSE Head(ds)

Rest(ds) == IF ds = <<>> THEN ds ELSE Tail(ds)

\* A tick of the second run with the DanisCemgil2017Custom model.
ReplayCustom ==
    /\ mode = "replay"
    /\ sim.class = "DanisCemgil2017Custom"
    /\ ncalls < Len(log)
    /\ \E r \in {DanisCalculatePosition(sim, now, env.ms, state.angle, state.x, state.y,
                                        env.area.min_x, env.area.max_x, env.area.min_y,
                                        env.area.max_y, env.speed, NextDraw(draws))} :
       \E c \in {CallRecord(sim.class, r.ret, r.drew)} :
           /\ sim' = r.self
           /\ state' = [x |-> r.ret[1], y |-> r.ret[2], angle |-> r.ret[3]]
           /\ last_call' = c
           /\ lastEvt' = IF c.oob \/ r.drew THEN now ELSE lastEvt
           /\ Excursion(c.oob)
           /\ draws' = IF r.drew THEN Rest(draws) ELSE draws
    /\ now' = now + env.ms
    /\ ncalls' = ncalls + 1
    /\ UNCHANGED <<cfgVars, factoryResult, constructed, request, env, mode, log>>

\* A tick of the second run with the DummyPositionModule model.
ReplayDummy ==
    /\ mode = "replay"
    /\ sim.class = "DummyPositionModule"
    /\ ncalls < Len(log)
    /\ LET a == env.area
           ret == DummyCalculatePosition(a.min_x, a.max_x, a.min_y, a.max_y,
                                         NextDraw(draws), NextDraw(Rest(draws)))
       IN  /\ state' = [state EXCEPT !.x = ret[1], !.y = ret[2]]
           /\ last_call' = CallRecord(sim.class, ret, TRUE)
    /\ draws' = Rest(Rest(draws))
    /\ now' = now + env.ms
    /\ ncalls' = ncalls + 1
    /\ UNCHANGED <<cfgVars, sim, factoryResult, constructed, request, env, lastEvt,
                   outRun, leftFrom, mode, log>>

(***************************************************************************)
(* Specifications                                                          *)
(***************************************************************************)

ConfigIdle ==
    /\ raw = NoConfig
    /\ attrs = NoConfig
    /\ cfgResult = "none"

SimIdle(e, m) ==
    /\ sim = NoSim
    /\ factoryResult = "none"
    /\ constructed = {}
    /\ request = NoRequest
    /\ env = e
    /\ now = 0
    /\ state = StartState(e)
    /\ last_call = NoCall
    /\ ncalls = 0
    /\ lastEvt = 0
    /\ outRun = 0
    /\ leftFrom = <<Real(e.x0), Real(e.y0)>>
    /\ mode = m
    /\ log = <<>>
    /\ draws = <<>>

\* The factory and one run of the simulation loop.
Init == ConfigIdle /\ \E e \in Envs : SimIdle(e, "walk")

Next ==
    \/ CreateSimulator
    \/ TickCustom
    \/ TickDummy

Spec == Init /\ [][Next]_vars

\* Construction of a Config from a parsed dictionary.
AnyEnv == CHOOSE e \in Envs : TRUE

InitConfig == ConfigIdle /\ SimIdle(AnyEnv, "walk")

NextConfig == ConfigInit

SpecConfig == InitConfig /\ [][NextConfig]_vars

\* Two runs, each on a fresh instance, the second replaying the first.
RunEnvs == {e \in Envs : e.angle0 = 0}

InitRuns == ConfigIdle /\ \E e \in RunEnvs : SimIdle(e, "record")

NextRuns ==
    \/ CreateSimulator
    \/ TickCustom
    \/ TickDummy
    \/ StartReplay
    \/ ReplayCustom
    \/ ReplayDummy

SpecRuns == InitRuns /\ [][NextRuns]_vars

(***************************************************************************)
(* Claims about Config (checked under SpecConfig)                          *)
(***************************************************************************)

Constructed == cfgResult # "none"

RoomMissing == attrs.room_dim_meters = None

RoomHasXY == ~RoomMissing /\ ~LacksXY(attrs.room_dim_meters[1])

PositionHasXY == ~LacksXY(attrs.initial_position)

\* The conditions C1 lists, on the defaulted values.
ListedConditions ==
    /\ attrs.simulation_duration_seconds > 0
    /\ RoomHasXY
    /\ X(attrs.room_dim_meters[1]) > 0
    /\ Y(attrs.room_dim_meters[1]) > 0
    /\ attrs.margin_meters >= 0
    /\ PositionHasXY
    /\ X(attrs.initial_position) >= 0
    /\ Y(attrs.initial_position) >= 0
    /\ attrs.speed_meters_second > 0
    /\ 0 <= attrs.initial_angle_degrees
    /\ attrs.initial_angle_degrees < 360
    /\ attrs.trajectory_simulator_module # ""
    /\ attrs.rssi_simulator_module # ""
    /\ attrs.margin_meters <= X(attrs.initial_position)
    /\ X(attrs.initial_position) <= X(attrs.room_dim_meters[1]) - attrs.margin_meters
    /\ attrs.margin_meters <= Y(attrs.initial_position)
    /\ Y(attrs.initial_position) <= Y(attrs.room_dim_meters[1]) - attrs.margin_meters

\* C1: Config construction succeeds if and only if every listed condition
\* holds of the defaulted configuration (both ends of the playfield
\* included); otherwise it fails with an error.
C1_SucceedsIffValid ==
    Constructed => ((cfgResult = "ok") <=> ListedConditions)

\* C1's example: margin 1, room 2x2, position (1,1) is accepted.
C1_Witness ==
    /\ cfgResult = "ok"
    /\ attrs.margin_meters = 10
    /\ attrs.room_dim_meters[1] = [x |-> Some(20), y |-> Some(20)]
    /\ attrs.initial_position = [x |-> Some(10), y |-> Some(10)]

\* C2 as stated: whenever 2*margin >= room.x or 2*margin >= room.y,
\* construction fails for every initial position.
C2_Original ==
    (/\ Constructed
     /\ RoomHasXY
     /\ \/ 2 * attrs.margin_meters >= X(attrs.room_dim_meters[1])
        \/ 2 * attrs.margin_meters >= Y(attrs.room_dim_meters[1]))
    => cfgResult # "ok"

\* C2 (amended): whenever 2*margin > room.x or 2*margin > room.y,
\* construction fails for every initial position.
C2_FailsWhenInverted ==
    (/\ Constructed
     /\ RoomHasXY
     /\ \/ 2 * attrs.margin_meters > X(attrs.room_dim_meters[1])
        \/ 2 * attrs.margin_meters > Y(attrs.room_dim_meters[1]))
    => cfgResult # "ok"

\* Margin 1.1 in a 2x2 room: every other check passes, the position is on
\* the lower end of the playfield, and the construction fails on the upper.
C2_Witness ==
    /\ Constructed
    /\ RoomHasXY
    /\ 2 * attrs.margin_meters > X(attrs.room_dim_meters[1])
    /\ PositionHasXY
    /\ X(attrs.initial_position) = attrs.margin_meters
    /\ cfgResult = "Initial x position is out of bounds."

\* C3 as stated: without room_dim_meters, whatever the other fields, the
\* construction fails with the room-dimension message.
C3_Original ==
    (Constructed /\ RoomMissing) => cfgResult = "Room dimensions must be provided."

\* C3 (amended): without room_dim_meters the construction fails; the message
\* is the room-dimension one when the duration is > 0, the duration one
\* otherwise.
C3_MissingRoomFails ==
    (Constructed /\ RoomMissing) =>
        /\ cfgResult # "ok"
        /\ attrs.simulation_duration_seconds > 0
               => cfgResult = "Room dimensions must be provided."
        /\ attrs.simulation_duration_seconds <= 0
               => cfgResult = "Simulation duration must be greater than 0."

\* No room, a valid duration and another field (the margin) invalid: the
\* room-dimension message is the one surfaced.
C3_Witness ==
    /\ Constructed
    /\ RoomMissing
    /\ attrs.simulation_duration_seconds > 0
    /\ attrs.margin_meters < 0
    /\ cfgResult = "Room dimensions must be provided."

(***************************************************************************)
(* Claims about the factory and the motion models (checked under Spec)     *)
(***************************************************************************)

Called == ncalls > 0

CustomCall == Called /\ last_call.class = "DanisCemgil2017Custom"

DummyCall == Called /\ last_call.class = "DummyPositionModule"

C5_AngleHeld ==
    (/\ CustomCall
     /\ ~last_call.oob
     /\ last_call.time - last_call.T <= sim.keep_angle_ms)
    => /\ last_call.ret[3] = last_call.angle
       /\ ~last_call.drew

\* The first in-bounds call after a boundary correction, within the hold
\* period that the correction started, of an instance with s > 0.
C5_Witness ==
    /\ CustomCall
    /\ ~last_call.oob
    /\ last_call.prev_oob
    /\ sim.s > 0
    /\ last_call.T > 0
    /\ last_call.time - last_call.T <= sim.keep_angle_ms
    /\ last_call.ret[3] = last_call.angle

FactoryCalled == factoryResult # "none" /\ request.params = NoParams

NotAvailable == factoryResult = "Trajectory simulator not available."

\* C6 as stated: with "dummy" and "daniscemgil2017custom" the registered
\* identifiers, each of them yields an instance and every other name fails
\* with the unknown-model error, no model being constructed.
C6_Original ==
    FactoryCalled =>
        IF request.name \in {"dummy", "daniscemgil2017custom"}
        THEN factoryResult = "instance"
        ELSE NotAvailable /\ constructed = {}

\* C6 (amended): "dummy" and "daniscemgil2017custom" each yield an instance
\* of their class; "daniscemgil2017" is dispatched to DanisCemgil2017 and
\* does not raise the unknown-model error; every other name fails with the
\* unknown-model error, no model being constructed.
C6_FactoryDispatch ==
    FactoryCalled =>
        CASE request.name = "dummy" ->
                 /\ factoryResult = "instance"
                 /\ sim.class = "DummyPositionModule"
          [] request.name = "daniscemgil2017custom" ->
                 /\ factoryResult = "instance"
                 /\ sim.class = "DanisCemgil2017Custom"
          [] request.name = "daniscemgil2017" -> ~NotAvailable
          [] OTHER -> NotAvailable /\ constructed = {} /\ sim = NoSim

\* The factory was asked for "nonexistent" and raised the error.
C6_Witness ==
    /\ FactoryCalled
    /\ request.name = "nonexistent"
    /\ NotAvailable
    /\ constructed = {}

\* C7: every call of a model the factory created returns a triple
\* (new_x, new_y, new_angle); the dummy model's x lies in [min_x, max_x] and
\* its y in [min_y, max_y].  (Every area tried has min < max, every speed and
\* tick is > 0.)
C7_Contract ==
    Called =>
        /\ Len(last_call.ret) = 3
        /\ DummyCall => InArea(last_call.ret[1], last_call.ret[2], env.area)

\* C9: every call, in or out of bounds, returns
\* (last_x + d*cos(new_angle), last_y + d*sin(new_angle)) with
\* d = speed * milliseconds_per_iteration / 1000: no clamp, no reflection.
C9_SoftBoundary ==
    CustomCall =>
        LET d == (env.speed * env.ms) \div 1000
        IN  /\ last_call.ret[1] = Plus(last_call.x, Times(d, Cos(last_call.ret[3])))
            /\ last_call.ret[2] = Plus(last_call.y, Times(d, Sin(last_call.ret[3])))

\* A walk that started inside the area is outside it, and the latest call,
\* given an out-of-bounds position, returned another one.
C9_Witness ==
    /\ CustomCall
    /\ InArea(Real(env.x0), Real(env.y0), env.area)
    /\ last_call.oob
    /\ ~InArea(state.x, state.y, env.area)

\* C10: a walk that steps from an in-bounds position to an out-of-bounds one
\* receives an out-of-bounds position in at most 15 consecutive calls; after
\* 15 corrections it is back at the in-bounds position it left from.
C10_ExcursionBounded ==
    /\ outRun <= 15
    /\ outRun = 15 => (<<state.x, state.y>> = leftFrom
                       /\ InArea(state.x, state.y, env.area))

\* An excursion of the full 15 corrections.
C10_Witness ==
    /\ CustomCall
    /\ outRun = 15
    /\ last_call.oob

(***************************************************************************)
(* Claim about independent runs (checked under SpecRuns)                   *)
(***************************************************************************)

====
